---- MODULE Spec2Model ----
(***************************************************************************)
(* Model of solve_stickers_layout (src/main.py): a CP-SAT model is built   *)
(* from the sticker list and the sizing parameters, the solver is invoked, *)
(* and its terminal status and assignment are turned into a report.        *)
(*                                                                         *)
(* The solver engine is an external library.  It is modelled by its        *)
(* contract: OPTIMAL comes with an assignment that satisfies every         *)
(* constraint and minimises the objective, FEASIBLE with any assignment    *)
(* that satisfies every constraint, INFEASIBLE only when no assignment     *)
(* satisfies the constraints, UNKNOWN whenever the time limit is hit.      *)
(***************************************************************************)
EXTENDS Integers, Sequences, FiniteSets, TLC

\* ---------------------------------------------------------------- bounds
MaxItems == 2
MaxDemand == 2
MaxLayouts == 2
MaxCapacity == 2
MaxXBound == 2
\* Most density variables y[k, i] of one model (layouts times stickers).
MaxCells == 4

\* objective_value is the objective of the assignment the solver holds.
VARIABLES stickers, max_layouts, layout_capacity, max_x_bound,
          pc, status, x, y, z, objective_value, result

vars == <<stickers, max_layouts, layout_capacity, max_x_bound,
          pc, status, x, y, z, objective_value, result>>

inputs == <<stickers, max_layouts, layout_capacity, max_x_bound>>

\* ------------------------------------------------------- input handling
\* Sticker names of the example list, in order.
ExampleNames == <<13, 16, 19, 7>>

sticker_names == [i \in 1..Len(stickers) |-> stickers[i][1]]
sticker_demands == [i \in 1..Len(stickers) |-> stickers[i][2]]
N == Len(sticker_names)
Items == 1..N
layouts == 0..(max_layouts - 1)

\* ------------------------------------------------------------- helpers
RECURSIVE SumOver(_, _)
SumOver(S, f) ==
    IF S = {} THEN 0
    ELSE LET e == CHOOSE e \in S : TRUE
         IN  f[e] + SumOver(S \ {e}, f)

RECURSIVE MinOf(_)
MinOf(S) ==
    LET e == CHOOSE e \in S : TRUE
    IN  IF S = {e} THEN e
        ELSE LET m == MinOf(S \ {e}) IN IF e < m THEN e ELSE m

\* ------------------------------------------------------------ the model
\* Domains of x[k], z[k], y[k, i].
\* Variant: the reproduction-count domain is one too wide.
XDomainOffByOne == [layouts -> 0..(max_x_bound + 1)]
XDomain == [layouts -> 0..max_x_bound]
ZDomain == [layouts -> {0, 1}]
YDomain == [layouts \X Items -> 0..layout_capacity]

\* Variant: w linked to the sum instead of the product.
WValueSum(xv, yv, k, i) == xv[k] + yv[<<k, i>>]

\* 1) w[k, i] = x[k] * y[k, i]; the product always lies in w's domain
\*    0..max_x_bound * layout_capacity.
WValue(xv, yv, k, i) == xv[k] * yv[<<k, i>>]

LayoutLoad(yv, k) == SumOver(Items, [i \in Items |-> yv[<<k, i>>]])

\* Variant: nothing is enforced when z[k] is false.
CapacityLinkingUsedOnly(zv, yv) ==
    \A k \in layouts :
        zv[k] = 1 => LayoutLoad(yv, k) <= layout_capacity

\* Variant: nothing is enforced when z[k] is true.
CapacityLinkingUnusedOnly(zv, yv) ==
    \A k \in layouts :
        zv[k] = 0 => LayoutLoad(yv, k) = 0

\* 2) Layout capacity, enforced by z[k] / z[k].Not().
CapacityLinking(zv, yv) ==
    \A k \in layouts :
        /\ zv[k] = 1 => LayoutLoad(yv, k) <= layout_capacity
        /\ zv[k] = 0 => LayoutLoad(yv, k) = 0

Printed(xv, yv, i) ==
    SumOver(layouts, [k \in layouts |-> WValue(xv, yv, k, i)])

\* Variant: the demand constraint is short by one.
DemandCoverageShort(xv, yv) ==
    \A i \in Items : Printed(xv, yv, i) + 1 >= sticker_demands[i]

\* 3) Demand constraints.
DemandCoverage(xv, yv) ==
    \A i \in Items : Printed(xv, yv, i) >= sticker_demands[i]

\* 4) At most max_layouts used.
CardinalityCap(zv) ==
    SumOver(layouts, zv) <= max_layouts

\* Variant: the presence constraint accepts a sticker that appears nowhere.
StructuralPresenceLoose(yv) ==
    \A i \in Items :
        SumOver(layouts, [k \in layouts |-> yv[<<k, i>>]]) >= 0

\* 5) Each sticker must appear in at least one layout.
StructuralPresence(yv) ==
    \A i \in Items :
        SumOver(layouts, [k \in layouts |-> yv[<<k, i>>]]) >= 1

\* The assignments within the variable domains that satisfy constraints
\* 1) to 5), enumerated density first.
FeasibleAssignments ==
    UNION {UNION {{[xv |-> xv, zv |-> zv, yv |-> yv] :
                        xv \in {xx \in XDomain : DemandCoverage(xx, yv)}} :
                  zv \in {zz \in ZDomain : /\ CapacityLinking(zz, yv)
                                           /\ CardinalityCap(zz)}} :
           yv \in {yy \in YDomain : StructuralPresence(yy)}}

\* Variant: only the first layout's count is minimised.
ObjectiveFirstOnly(xv) == SumOver(layouts \cap {0}, xv)

\* Objective: the sum of x[k] over all layouts.
Objective(xv) == SumOver(layouts, xv)

\* ------------------------------------------------------------ the solver
OkStatus == {"OPTIMAL", "FEASIBLE"}

NoAssignment == <<>>

\* The least value of the objective over the feasible assignments.
MinObjective == MinOf({Objective(a.xv) : a \in FeasibleAssignments})

SolveOptimal ==
    /\ pc = "built"
    /\ FeasibleAssignments # {}
    /\ \E best \in {MinObjective} :
         \E a \in FeasibleAssignments :
            /\ Objective(a.xv) = best
            /\ x' = a.xv /\ y' = a.yv /\ z' = a.zv
            /\ objective_value' = best
    /\ status' = "OPTIMAL"
    /\ pc' = "solved"
    /\ UNCHANGED <<inputs, result>>

SolveFeasible ==
    /\ pc = "built"
    /\ \E a \in FeasibleAssignments :
            /\ x' = a.xv /\ y' = a.yv /\ z' = a.zv
            /\ objective_value' = Objective(a.xv)
    /\ status' = "FEASIBLE"
    /\ pc' = "solved"
    /\ UNCHANGED <<inputs, result>>

SolveInfeasible ==
    /\ pc = "built"
    /\ FeasibleAssignments = {}
    /\ status' = "INFEASIBLE"
    /\ pc' = "solved"
    /\ UNCHANGED <<inputs, result, x, y, z, objective_value>>

SolveUnknown ==
    /\ pc = "built"
    /\ status' = "UNKNOWN"
    /\ pc' = "solved"
    /\ UNCHANGED <<inputs, result, x, y, z, objective_value>>

\* ------------------------------------------------------ result extraction
RECURSIVE UsedFrom(_)
UsedFrom(k) ==
    IF k >= max_layouts THEN <<>>
    ELSE (IF z[k] = 1 THEN <<k>> ELSE <<>>) \o UsedFrom(k + 1)

used_layouts == UsedFrom(0)

UsedSet == {used_layouts[j] : j \in 1..Len(used_layouts)}

total_pages == SumOver(UsedSet, [k \in UsedSet |-> x[k]])

\* A dict keyed by name keeps the value written last.
LastIndex(S) == CHOOSE i \in S : \A j \in S : j <= i

\* Variant: a density of 1 is omitted as well.
single_layoutAboveOne(k) ==
    LET present == {i \in Items : y[<<k, i>>] > 1}
        keys == {sticker_names[i] : i \in present}
    IN  [nm \in keys |->
            y[<<k, LastIndex({i \in present : sticker_names[i] = nm})>>]]

single_layout(k) ==
    LET present == {i \in Items : y[<<k, i>>] > 0}
        keys == {sticker_names[i] : i \in present}
    IN  [nm \in keys |->
            y[<<k, LastIndex({i \in present : sticker_names[i] = nm})>>]]

layout_distributions == [k \in UsedSet |-> single_layout(k)]

demand_checks ==
    LET keys == {sticker_names[i] : i \in Items}
    IN  [nm \in keys |->
            LET i == LastIndex({j \in Items : sticker_names[j] = nm})
                printed == Printed(x, y, i)
                required == sticker_demands[i]
            IN  [printed |-> printed,
                 required |-> required,
                 met |-> (printed >= required)]]

SolutionResult ==
    [status |-> status,
     used_layouts |-> used_layouts,
     layout_prints |-> [k \in UsedSet |-> x[k]],
     total_pages |-> total_pages,
     layout_distributions |-> layout_distributions,
     demand_checks |-> demand_checks]

\* Variant: the failure result carries an empty structural field.
NoSolutionResultPartial ==
    [status |-> status,
     used_layouts |-> <<>>,
     message |-> "No feasible solution found or time limit reached."]

NoSolutionResult ==
    [status |-> status,
     message |-> "No feasible solution found or time limit reached."]

\* ---------------------------------------------------------------- actions
BuildModel ==
    /\ pc = "start"
    /\ pc' = "built"
    /\ UNCHANGED <<inputs, status, x, y, z, objective_value, result>>

ReturnSolution ==
    /\ pc = "solved"
    /\ status \in OkStatus
    /\ result' = SolutionResult
    /\ pc' = "done"
    /\ UNCHANGED <<inputs, status, x, y, z, objective_value>>

ReturnNoSolution ==
    /\ pc = "solved"
    /\ status \notin OkStatus
    /\ result' = NoSolutionResult
    /\ pc' = "done"
    /\ UNCHANGED <<inputs, status, x, y, z, objective_value>>

\* ------------------------------------------------------------------ init
\* demands [10, 5], max_layouts = 1, layout_capacity = 2
ScenarioA ==
    [stickers |-> <<<<13, 10>>, <<16, 5>>>>,
     max_layouts |-> 1, layout_capacity |-> 2, max_x_bound |-> 10]

StickerLists ==
    UNION {{[i \in 1..n |-> <<ExampleNames[i], d[i]>>] :
                d \in [1..n -> (-1)..MaxDemand]} : n \in 0..MaxItems}

GridInputs ==
    {inp \in [stickers : StickerLists,
              max_layouts : 0..MaxLayouts,
              layout_capacity : 0..MaxCapacity,
              max_x_bound : 0..MaxXBound] :
        Len(inp.stickers) * inp.max_layouts <= MaxCells}

Init ==
    /\ \E inp \in GridInputs \cup {ScenarioA} :
          /\ stickers = inp.stickers
          /\ max_layouts = inp.max_layouts
          /\ layout_capacity = inp.layout_capacity
          /\ max_x_bound = inp.max_x_bound
    /\ pc = "start"
    /\ status = "NONE"
    /\ x = NoAssignment /\ y = NoAssignment /\ z = NoAssignment
    /\ objective_value = 0
    /\ result = [status |-> "NONE"]

Next ==
    \/ BuildModel
    \/ SolveOptimal
    \/ SolveFeasible
    \/ SolveInfeasible
    \/ SolveUnknown
    \/ ReturnSolution
    \/ ReturnNoSolution

Spec == Init /\ [][Next]_vars

\* ================================================================ claims
Returned == pc = "done"
Success == Returned /\ result.status \in OkStatus
ReportedUsed == {result.used_layouts[j] : j \in 1..Len(result.used_layouts)}

\* Density of item i in the reported layout k; an omitted item counts 0.
ReportedDensity(k, i) ==
    IF sticker_names[i] \in DOMAIN result.layout_distributions[k]
    THEN result.layout_distributions[k][sticker_names[i]]
    ELSE 0

ReportedLoad(k) == SumOver(Items, [i \in Items |-> ReportedDensity(k, i)])

TotalDemand == SumOver(Items, sticker_demands)

InvalidInput ==
    \/ \E i \in Items : sticker_demands[i] < 0
    \/ layout_capacity <= 0
    \/ max_layouts <= 0

IsScenarioA ==
    /\ stickers = ScenarioA.stickers
    /\ max_layouts = ScenarioA.max_layouts
    /\ layout_capacity = ScenarioA.layout_capacity
    /\ max_x_bound = ScenarioA.max_x_bound

\* C1: in every OPTIMAL/FEASIBLE result, each item's printed count (summed
\* over all layouts) is at least its required count, required is the item's
\* input demand, and met is exactly printed >= required.
C1_DemandCoverage ==
    Success =>
        \A i \in Items :
            LET dc == result.demand_checks[sticker_names[i]]
            IN  /\ dc.required = sticker_demands[i]
                /\ dc.printed =
                     SumOver(layouts, [k \in layouts |-> x[k] * y[<<k, i>>]])
                /\ dc.printed >= dc.required
                /\ dc.met = (dc.printed >= dc.required)
                /\ dc.met = TRUE

C1_Witness ==
    /\ Success
    /\ \E i \in Items :
          /\ sticker_demands[i] = MaxDemand
          /\ result.demand_checks[sticker_names[i]].printed = MaxDemand
          /\ result.demand_checks[sticker_names[i]].met

\* C2: an OPTIMAL result's total_pages (summed over the used layouts only)
\* is the least sum of x[k] over all layouts among the assignments that
\* satisfy the constraints, which is the objective value the solver
\* reached; for demands [10, 5], one layout of capacity 2, the result is
\* one layout with density 1 for each item and 10 prints.
C2_OptimalTotalIsMinimum ==
    (Returned /\ result.status = "OPTIMAL") =>
        /\ result.total_pages = SumOver(layouts, x)
        /\ result.total_pages = objective_value
        /\ IsScenarioA =>
              /\ \A a \in FeasibleAssignments :
                    result.total_pages <= SumOver(layouts, a.xv)
              /\ result.used_layouts = <<0>>
              /\ result.layout_distributions[0] = (13 :> 1) @@ (16 :> 1)
              /\ result.layout_prints[0] = 10
              /\ result.total_pages = 10

C2_Witness ==
    /\ Returned /\ result.status = "OPTIMAL"
    /\ max_layouts >= 2
    /\ result.total_pages >= 2
    /\ Len(result.used_layouts) = 1

\* C3 (as stated): in every OPTIMAL/FEASIBLE result, every layout that is
\* not used has reproduction count 0 and density 0 for every item.  Stated
\* for valid input with at least one item, where it already fails.
C3_UnusedLayoutEmpty ==
    (Success /\ ~InvalidInput /\ N >= 1) =>
        \A k \in layouts \ ReportedUsed :
            /\ x[k] = 0
            /\ \A i \in Items : y[<<k, i>>] = 0

\* C3 (amended): in every OPTIMAL/FEASIBLE result, every layout that is not
\* used has density 0 for every item and so prints nothing; its
\* reproduction count is 0 when the status is OPTIMAL.
C3_UnusedLayoutEmptyAmended ==
    Success =>
        \A k \in layouts \ ReportedUsed :
            /\ \A i \in Items : y[<<k, i>>] = 0 /\ x[k] * y[<<k, i>>] = 0
            /\ result.status = "OPTIMAL" => x[k] = 0

C3_Witness ==
    /\ Success /\ result.status = "OPTIMAL"
    /\ layouts \ ReportedUsed # {}
    /\ ReportedUsed # {}
    /\ N >= 1
    /\ result.total_pages >= 1

\* C4: in every OPTIMAL/FEASIBLE result, the densities reported for a used
\* layout add up to at most layout_capacity.
C4_CapacityRespect ==
    Success =>
        \A k \in ReportedUsed : ReportedLoad(k) <= layout_capacity

C4_Witness ==
    /\ Success
    /\ N >= 2
    /\ \E k \in ReportedUsed :
          /\ ReportedLoad(k) = layout_capacity
          /\ \A i \in Items : ReportedDensity(k, i) >= 1

\* C5: in every OPTIMAL/FEASIBLE result, every input item, also one with
\* demand 0, is a key with density >= 1 in the distribution of at least one
\* used layout.
C5_StructuralPresence ==
    Success =>
        \A i \in Items :
            \E k \in ReportedUsed :
                /\ sticker_names[i] \in DOMAIN result.layout_distributions[k]
                /\ result.layout_distributions[k][sticker_names[i]] >= 1

C5_Witness ==
    /\ Success
    /\ \E i \in Items :
          /\ sticker_demands[i] = 0
          /\ \E k \in ReportedUsed : ReportedDensity(k, i) >= 1

\* C6: when the total demand exceeds max_layouts * layout_capacity *
\* max_x_bound, the solver status is never OPTIMAL or FEASIBLE, and the
\* returned result carries status INFEASIBLE or UNKNOWN.
C6_OverDemandNeverSolved ==
    TotalDemand > max_layouts * layout_capacity * max_x_bound =>
        /\ status \notin OkStatus
        /\ Returned =>
              /\ result.status \in {"INFEASIBLE", "UNKNOWN"}
              /\ "message" \in DOMAIN result

C6_Witness ==
    /\ Returned
    /\ TotalDemand > max_layouts * layout_capacity * max_x_bound
    /\ max_layouts * layout_capacity * max_x_bound >= 1
    /\ result.status = "INFEASIBLE"

\* C7: invalid input (a negative demand, layout_capacity <= 0 or
\* max_layouts <= 0) is rejected before the model is built: it never
\* reaches the solver and never yields an OPTIMAL/FEASIBLE result.  Stated
\* of the returned result of a call with at least one item.
C7_InvalidInputRejected ==
    (InvalidInput /\ N >= 1 /\ Returned) =>
        result.status \notin OkStatus

\* C8: a result whose status is neither OPTIMAL nor FEASIBLE has exactly
\* the keys status and message; a result whose status is OPTIMAL or
\* FEASIBLE has status and the five structural keys and no message.
C8_ResultShape ==
    Returned =>
        /\ result.status = status
        /\ status \notin OkStatus =>
              DOMAIN result = {"status", "message"}
        /\ status \in OkStatus =>
              DOMAIN result = {"status", "used_layouts", "layout_prints",
                               "total_pages", "layout_distributions",
                               "demand_checks"}

C8_Witness ==
    /\ Returned
    /\ result.status = "UNKNOWN"
    /\ FeasibleAssignments # {}
    /\ DOMAIN result = {"status", "message"}

\* C9 (as stated): in every assignment that satisfies the constraints, z[k]
\* is true exactly when layout k holds at least one sticker, so every used
\* layout has a non-empty distribution.  Stated for valid input with at
\* least one item, where it already fails.
C9_UsedIffOccupied ==
    (status \in OkStatus /\ ~InvalidInput /\ N >= 1) =>
        /\ \A k \in layouts : (z[k] = 1) <=> (LayoutLoad(y, k) >= 1)
        /\ Returned =>
              \A k \in ReportedUsed :
                  DOMAIN result.layout_distributions[k] # {}

\* C9 (amended): in every assignment that satisfies the constraints, a
\* layout that holds at least one sticker has z[k] true (a layout is never
\* unused while slot-occupied); z[k] may be true for an empty layout, and
\* every used layout that holds a sticker has a non-empty distribution.
C9_OccupiedImpliesUsed ==
    status \in OkStatus =>
        /\ \A k \in layouts : (LayoutLoad(y, k) >= 1) => (z[k] = 1)
        /\ Returned =>
              \A k \in layouts :
                  LayoutLoad(y, k) >= 1 =>
                      /\ k \in ReportedUsed
                      /\ DOMAIN result.layout_distributions[k] # {}

C9_Witness ==
    /\ Success
    /\ \E k \in ReportedUsed : DOMAIN result.layout_distributions[k] = {}
    /\ \E k \in ReportedUsed : DOMAIN result.layout_distributions[k] # {}

\* C10: in every OPTIMAL/FEASIBLE result, each item's printed count equals
\* the sum over the used layouts of layout_prints[k] times the item's
\* density in layout_distributions[k] (0 when omitted).
C10_ReportSelfConsistent ==
    Success =>
        \A i \in Items :
            result.demand_checks[sticker_names[i]].printed =
                SumOver(ReportedUsed,
                        [k \in ReportedUsed |->
                            result.layout_prints[k] * ReportedDensity(k, i)])

C10_Witness ==
    /\ Success
    /\ \E k \in layouts \ ReportedUsed : x[k] >= 1
    /\ \E i \in Items : result.demand_checks[sticker_names[i]].printed >= 2
====
